---- MODULE Spec2Model ----
(***************************************************************************)
(* Model of the k3s-mcp-server request router (call_tool), its tool        *)
(* registry (TOOLS / list_tools) and the K3sClient capability methods, for  *)
(* both server modules of the repository:                                   *)
(*   "top" : k3s_mcp_server/server.py        (src/k3s_mcp_server/...)      *)
(*   "src" : src/k3s_mcp_server/server.py    (src/src/k3s_mcp_server/...)  *)
(*                                                                         *)
(* A text (Python str) is a sequence of tokens; a token is a TLA+ string   *)
(* standing for one character or for a run of characters none of which     *)
(* json.dumps escapes.  The characters json.dumps escapes that occur in    *)
(* the model (double quote, backslash, newline) are tokens of their own.   *)
(* Python values are tagged records.  The Kubernetes API (the kubernetes   *)
(* client library and the cluster behind it) and the YAML parser are       *)
(* outside the repository: each API call's outcome and returned data is a  *)
(* nondeterministic input of the request.                                  *)
(*                                                                         *)
(* Spec        : startup, then requests answered one after the other.      *)
(* SpecRepeat  : the same, each request kept with its answer (hist).       *)
(* SpecOverlap : startup, then two handlers interleaved at their API calls.*)
(***************************************************************************)
EXTENDS Integers, Sequences, FiniteSets, TLC

VARIABLES
    impl,               \* which server module is running: "top" or "src"
    env,                \* K3S_DEFAULT_NAMESPACE in the process environment
    DEFAULT_NAMESPACE,  \* module constant read from the environment at import
    KUBECONFIG_PATH,    \* module constant: the kubeconfig path
    DEBUG,              \* module constant: K3S_DEBUG lowered equals "true"
    kubeconfig,         \* the file at KUBECONFIG_PATH: "ok", "missing" or "unloadable"
    cluster,            \* the cluster when the process starts: "reachable" or "unreachable"
    tools,              \* the module's TOOLS list
    alive,              \* the server process is running
    pc,                 \* "starting": module import and main before app.run;
                        \* "idle": waiting for a request; "responded": call_tool
                        \* returned; "exited": the process has terminated
    req,                \* the request being answered: [name, args]
    resp,               \* what call_tool produced for req
    nServed,            \* requests answered so far
    nFailed,            \* of these, how many ended in a Failure
    hist,               \* the requests answered so far with what each one got,
                        \* kept in the runs that compare repeated requests
    task,               \* per client request in flight: how far its handler is
    frame,              \* per handler invocation: its parameters and locals
    calls               \* the calls made on the shared API client, in order

vars == <<impl, env, DEFAULT_NAMESPACE, KUBECONFIG_PATH, DEBUG, kubeconfig, cluster,
          tools, alive, pc, req, resp, nServed, nFailed, hist, task, frame, calls>>
\* What only the runs with overlapping handlers change.
overlap == <<task, frame, calls>>

\* Bound on the number of requests of one run.
MaxRequests == 2

(***************************** Python values *******************************)

PyStr(s) == [t |-> "str", s |-> s]
PyInt(n) == [t |-> "int", n |-> n]
PyNone == [t |-> "null"]
PyList(items) == [t |-> "list", items |-> items]
\* A dict literal: the sequence of its <<key, value>> pairs in insertion order.
PyDict(pairs) == [t |-> "dict", pairs |-> pairs]

\* bool(v) for the values a namespace / container / labels argument takes.
Truthy(v) ==
    CASE v.t = "null" -> FALSE
      [] v.t = "str" -> Len(v.s) > 0
      [] v.t = "int" -> v.n # 0
      [] v.t = "list" -> Len(v.items) > 0
      [] OTHER -> TRUE

\* str(v) as an f-string renders it.
Format(v) ==
    CASE v.t = "null" -> <<"None">>
      [] v.t = "str" -> v.s
      [] v.t = "int" -> <<ToString(v.n)>>
      [] OTHER -> <<"<object>">>

\* str.lower() on the tokens a kind is made of.
LowerToken(c) ==
    CASE c = "Pod" -> "pod"
      [] c = "Deployment" -> "deployment"
      [] c = "Service" -> "service"
      [] c = "ConfigMap" -> "configmap"
      [] c = "True" -> "true"
      [] OTHER -> c

Lower(s) == [i \in 1..Len(s) |-> LowerToken(s[i])]

\* a in b, for texts.
Contains(b, a) ==
    \E i \in 1..(Len(b) - Len(a) + 1) : SubSeq(b, i, i + Len(a) - 1) = a

(******************************* json.dumps ********************************)

\* The escaping json.dumps applies inside a string (ensure_ascii default).
EscapeToken(c) ==
    CASE c = "\"" -> <<"\\", "\"">>
      [] c = "\\" -> <<"\\", "\\">>
      [] c = "\n" -> <<"\\", "n">>
      [] OTHER -> <<c>>

RECURSIVE Escape(_)
Escape(s) == IF s = <<>> THEN <<>> ELSE EscapeToken(Head(s)) \o Escape(Tail(s))

JsonString(s) == <<"\"">> \o Escape(s) \o <<"\"">>

\* Newline plus indentation of json.dumps(indent=2) at nesting depth d.
RECURSIVE Indent(_)
Indent(d) == IF d = 0 THEN <<>> ELSE <<"  ">> \o Indent(d - 1)

NewLine(d) == <<"\n">> \o Indent(d)

RECURSIVE Dumps(_, _)
RECURSIVE DumpItems(_, _)
RECURSIVE DumpPairs(_, _)
DumpItems(items, d) ==
    IF items = <<>> THEN <<>>
    ELSE NewLine(d) \o Dumps(Head(items), d)
         \o (IF Len(items) > 1 THEN <<",">> ELSE <<>>)
         \o DumpItems(Tail(items), d)

DumpPairs(pairs, d) ==
    IF pairs = <<>> THEN <<>>
    ELSE NewLine(d) \o JsonString(<<Head(pairs)[1]>>) \o <<": ">>
         \o Dumps(Head(pairs)[2], d)
         \o (IF Len(pairs) > 1 THEN <<",">> ELSE <<>>)
         \o DumpPairs(Tail(pairs), d)

Dumps(v, d) ==
    CASE v.t = "null" -> <<"null">>
      [] v.t = "int" -> <<ToString(v.n)>>
      [] v.t = "str" -> JsonString(v.s)
      [] v.t = "list" ->
            IF v.items = <<>> THEN <<"[]">>
            ELSE <<"[">> \o DumpItems(v.items, d + 1) \o NewLine(d) \o <<"]">>
      [] v.t = "dict" ->
            IF v.pairs = <<>> THEN <<"{}">>
            ELSE <<"{">> \o DumpPairs(v.pairs, d + 1) \o NewLine(d) \o <<"}">>

\* json.dumps(v, indent=2)
json_dumps(v) == Dumps(v, 0)

(************************ the Kubernetes API (external) ********************)

\* Bound on the number of YAML documents of a manifest.
MaxDocs == 2

\* Outcome of one call of the kubernetes client library: it returns, raises
\* ApiException (here 404 Not Found), or raises another exception (a
\* connection error of the HTTP layer).
ApiOutcomes == {"ok", "api", "err"}

\* ApiException.reason and str(ApiException) of the 404, and str() of the
\* connection error.
ApiReason == <<"Not Found">>
ApiExceptionStr == <<"(404)", "\n", "Reason: Not Found", "\n">>
ConnErrorStr == <<"Max retries exceeded with url: ", "/api/v1">>

\* str(yaml.YAMLError) of a manifest that does not parse: a marked error
\* spans several lines and quotes the stream name.
YamlErrorStr ==
    <<"while parsing a flow sequence", "\n", "  in ", "\"", "<unicode string>",
      "\"", ", line 1, column 4">>
\* str(yaml.composer.ComposerError) safe_load raises on a second document.
YamlComposerErrorStr ==
    <<"expected a single document in the stream", "\n", "  in ", "\"",
      "<unicode string>", "\"", ", line 1, column 1">>

\* The longest run of API calls one request can make: get_cluster_info makes
\* three, apply_manifest one per document.
OracleLen == IF MaxDocs > 3 THEN MaxDocs ELSE 3

Call(op, args) == [op |-> op, args |-> args]

(************************ outcome of a K3sClient method ********************)

NoExc == [cls |-> "", msg |-> <<>>]
\* The method returned v after making the API calls api.
Returned(v, api) == [ok |-> TRUE, val |-> v, exc |-> NoExc, api |-> api]
\* The method raised cls(msg) after making the API calls api.
Raised(cls, msg, api) ==
    [ok |-> FALSE, val |-> PyNone, exc |-> [cls |-> cls, msg |-> msg], api |-> api]

\* v or ""
OrEmpty(v) == IF Truthy(v) THEN v ELSE PyStr(<<>>)

(********************* K3sClient, k3s_mcp_server/server.py *****************)

\* except ApiException as e: raise Exception(f"<prefix>{e.reason}"); any other
\* exception leaves the method as it is.
ApiFailure_top(out, prefix, api) ==
    IF out = "api" THEN Raised("Exception", prefix \o ApiReason, api)
    ELSE Raised("MaxRetryError", ConnErrorStr, api)

\* The per-item dictionaries of the list methods; of the fields copied from
\* the API object the model keeps name and namespace.
ItemInfo(item) == PyDict(<< <<"name", PyStr(item.name)>>, <<"namespace", PyStr(item.namespace)>> >>)
ItemInfos(items) == [i \in 1..Len(items) |-> ItemInfo(items[i])]

ListResult_top(key, items) ==
    PyDict(<< <<key, PyList(ItemInfos(items))>>, <<"count", PyInt(Len(items))>> >>)

get_pods_top(namespace, label_selector, o, w) ==
    LET api == IF Truthy(namespace)
               THEN <<Call("list_namespaced_pod", <<namespace, OrEmpty(label_selector)>>)>>
               ELSE <<Call("list_pod_for_all_namespaces", <<OrEmpty(label_selector)>>)>>
    IN  IF o[1] = "ok" THEN Returned(ListResult_top("pods", w.items), api)
        ELSE ApiFailure_top(o[1], <<"Failed to list pods: ">>, api)

get_pod_logs_top(pod_name, namespace, container, tail_lines, o, w) ==
    LET api == <<Call("read_namespaced_pod_log", <<pod_name, namespace, container, tail_lines>>)>>
    IN  IF o[1] = "ok" THEN Returned(PyStr(w.text), api)
        ELSE ApiFailure_top(o[1], <<"Failed to get logs: ">>, api)

execute_command_top(pod_name, namespace, command, container, o, w) ==
    LET kwargs == <<pod_name, namespace, command>>
                  \o (IF Truthy(container) THEN <<container>> ELSE <<>>)
        api == <<Call("connect_get_namespaced_pod_exec", kwargs)>>
    IN  IF o[1] = "ok" THEN Returned(PyStr(w.text), api)
        ELSE ApiFailure_top(o[1], <<"Failed to execute command: ">>, api)

delete_pod_top(pod_name, namespace, o) ==
    LET api == <<Call("delete_namespaced_pod", <<pod_name, namespace>>)>>
    IN  IF o[1] = "ok"
        THEN Returned(PyDict(<< <<"status", PyStr(<<"deleted">>)>>, <<"pod", pod_name>>,
                                <<"namespace", namespace>> >>), api)
        ELSE ApiFailure_top(o[1], <<"Failed to delete pod: ">>, api)

\* A faulty list that falls back to the namespace "default" when none is
\* given.
get_deployments_top_default(namespace, o, w) ==
    LET api == <<Call("list_namespaced_deployment",
                      <<IF Truthy(namespace) THEN namespace ELSE PyStr(<<"default">>)>>)>>
    IN  IF o[1] = "ok" THEN Returned(ListResult_top("deployments", w.items), api)
        ELSE ApiFailure_top(o[1], <<"Failed to list deployments: ">>, api)

get_deployments_top(namespace, o, w) ==
    LET api == IF Truthy(namespace)
               THEN <<Call("list_namespaced_deployment", <<namespace>>)>>
               ELSE <<Call("list_deployment_for_all_namespaces", <<>>)>>
    IN  IF o[1] = "ok" THEN Returned(ListResult_top("deployments", w.items), api)
        ELSE ApiFailure_top(o[1], <<"Failed to list deployments: ">>, api)

\* The API object read is the deployment asked for; w.replicas is its
\* spec.replicas.
\* A faulty describe that writes the deployment back after reading it.
get_deployment_top_touch(name, namespace, o, w) ==
    LET api == <<Call("read_namespaced_deployment", <<name, namespace>>),
                 Call("patch_namespaced_deployment", <<name, namespace, PyInt(w.replicas)>>)>>
    IN  IF o[1] = "ok"
        THEN Returned(PyDict(<< <<"name", name>>, <<"namespace", namespace>>,
                                <<"replicas", PyInt(w.replicas)>> >>), api)
        ELSE ApiFailure_top(o[1], <<"Failed to get deployment: ">>, <<api[1]>>)

get_deployment_top(name, namespace, o, w) ==
    LET api == <<Call("read_namespaced_deployment", <<name, namespace>>)>>
    IN  IF o[1] = "ok"
        THEN Returned(PyDict(<< <<"name", name>>, <<"namespace", namespace>>,
                                <<"replicas", PyInt(w.replicas)>> >>), api)
        ELSE ApiFailure_top(o[1], <<"Failed to get deployment: ">>, api)

\* A faulty scale that reads the deployment a second time when the first
\* read failed.
scale_deployment_top_retry(name, namespace, replicas, o) ==
    LET read == Call("read_namespaced_deployment", <<name, namespace>>) IN
    ApiFailure_top(IF o[1] # "ok" THEN o[1] ELSE "api", <<"Failed to scale deployment: ">>,
                   IF o[1] # "ok" THEN <<read, read>> ELSE <<read>>)

scale_deployment_top(name, namespace, replicas, o) ==
    LET read == Call("read_namespaced_deployment", <<name, namespace>>)
        patch == Call("patch_namespaced_deployment", <<name, namespace, replicas>>)
    IN  IF o[1] # "ok"
        THEN ApiFailure_top(o[1], <<"Failed to scale deployment: ">>, <<read>>)
        ELSE IF o[2] # "ok"
        THEN ApiFailure_top(o[2], <<"Failed to scale deployment: ">>, <<read, patch>>)
        ELSE Returned(PyDict(<< <<"status", PyStr(<<"scaled">>)>>, <<"deployment", name>>,
                                <<"namespace", namespace>>, <<"replicas", replicas>> >>),
                      <<read, patch>>)

get_services_top(namespace, o, w) ==
    LET api == IF Truthy(namespace)
               THEN <<Call("list_namespaced_service", <<namespace>>)>>
               ELSE <<Call("list_service_for_all_namespaces", <<>>)>>
    IN  IF o[1] = "ok" THEN Returned(ListResult_top("services", w.items), api)
        ELSE ApiFailure_top(o[1], <<"Failed to list services: ">>, api)

get_nodes_top(o, w) ==
    LET api == <<Call("list_node", <<>>)>>
    IN  IF o[1] = "ok" THEN Returned(ListResult_top("nodes", w.items), api)
        ELSE ApiFailure_top(o[1], <<"Failed to list nodes: ">>, api)

get_namespaces_top(o, w) ==
    LET api == <<Call("list_namespace", <<>>)>>
    IN  IF o[1] = "ok" THEN Returned(ListResult_top("namespaces", w.items), api)
        ELSE ApiFailure_top(o[1], <<"Failed to list namespaces: ">>, api)

get_cluster_info_top(o, w) ==
    LET c1 == Call("get_code", <<>>)
        c2 == Call("list_node", <<>>)
        c3 == Call("list_namespace", <<>>)
        prefix == <<"Failed to get cluster info: ">>
    IN  IF o[1] # "ok" THEN ApiFailure_top(o[1], prefix, <<c1>>)
        ELSE IF o[2] # "ok" THEN ApiFailure_top(o[2], prefix, <<c1, c2>>)
        ELSE IF o[3] # "ok" THEN ApiFailure_top(o[3], prefix, <<c1, c2, c3>>)
        ELSE Returned(PyDict(<< <<"version", PyDict(<< <<"git_version", PyStr(<<"v1.28.5+k3s1">>)>> >>)>>,
                                <<"node_count", PyInt(Len(w.items))>>,
                                <<"namespace_count", PyInt(Len(w.items))>> >>),
                      <<c1, c2, c3>>)

(* A manifest text is modelled by what the YAML parser makes of it:         *)
(* [t |-> "yaml", valid, docs].  A document is PyNone (an empty document),  *)
(* a scalar [t |-> "scalar"], or a mapping                                  *)
(*   [t |-> "doc", kind, hasMeta, name, hasNs, ns]                          *)
(* where kind and name are PyNone when the key is missing, hasMeta says      *)
(* whether the mapping has a "metadata" key and hasNs whether the metadata  *)
(* has a "namespace" key.                                                   *)
IsMapping(doc) == doc.t = "doc"

\* metadata.get("namespace", default)
MetaNamespace(doc, default) == IF doc.hasMeta /\ doc.hasNs THEN doc.ns ELSE default

\* namespace or x
OrElse(namespace, x) == IF Truthy(namespace) THEN namespace ELSE x

CreateOp(kind) ==
    CASE kind = PyStr(<<"Pod">>) -> "create_namespaced_pod"
      [] kind = PyStr(<<"Deployment">>) -> "create_namespaced_deployment"
      [] kind = PyStr(<<"Service">>) -> "create_namespaced_service"
      [] OTHER -> ""

\* The loop of apply_manifest over the parsed documents: k API calls have
\* been made so far (api), results holds the lines appended so far.
RECURSIVE ApplyDocs_top(_, _, _, _, _, _)
ApplyDocs_top(docs, namespace, default_namespace, o, results, api) ==
    IF docs = <<>>
    THEN Returned(PyDict(<< <<"status", PyStr(<<"applied">>)>>,
                            <<"results", PyList(results)>> >>), api)
    ELSE LET manifest == Head(docs) IN
         IF manifest.t = "null"
         THEN ApplyDocs_top(Tail(docs), namespace, default_namespace, o, results, api)
         ELSE IF ~IsMapping(manifest)
         THEN Raised("AttributeError", <<"'str' object has no attribute 'get'">>, api)
         ELSE LET kind == manifest.kind
                  name == IF manifest.hasMeta THEN manifest.name ELSE PyNone
                  obj_namespace == OrElse(namespace, MetaNamespace(manifest, PyStr(default_namespace)))
                  k == Len(api) + 1
                  api2 == Append(api, Call(CreateOp(kind), <<obj_namespace, name>>))
              IN  IF CreateOp(kind) # ""
                  THEN IF o[k] = "ok"
                       THEN ApplyDocs_top(Tail(docs), namespace, default_namespace, o,
                                Append(results, PyStr(<<"Created ">> \o kind.s \o <<" ">>
                                    \o Format(name) \o <<" in ">> \o Format(obj_namespace))),
                                api2)
                       ELSE ApiFailure_top(o[k], <<"Failed to apply manifest: ">>, api2)
                  ELSE ApplyDocs_top(Tail(docs), namespace, default_namespace, o,
                            Append(results, PyStr(<<"Warning: Unsupported kind ">>
                                \o Format(kind) \o <<" for ">> \o Format(name))),
                            api)

\* A faulty apply that walks the documents from the last to the first.
apply_manifest_top_reversed(manifest_yaml, namespace, default_namespace, o) ==
    LET docs == manifest_yaml.docs IN
    IF ~manifest_yaml.valid
    THEN Raised("Exception", <<"Invalid YAML: ">> \o YamlErrorStr, <<>>)
    ELSE ApplyDocs_top([j \in 1..Len(docs) |-> docs[Len(docs) + 1 - j]],
                       namespace, default_namespace, o, <<>>, <<>>)

apply_manifest_top(manifest_yaml, namespace, default_namespace, o) ==
    IF ~manifest_yaml.valid
    THEN Raised("Exception", <<"Invalid YAML: ">> \o YamlErrorStr, <<>>)
    ELSE ApplyDocs_top(manifest_yaml.docs, namespace, default_namespace, o, <<>>, <<>>)

\* A faulty dispatch that treats every other kind as a pod.
DeleteOp_top_fallback(kind) ==
    CASE kind = PyStr(<<"Deployment">>) -> "delete_namespaced_deployment"
      [] kind = PyStr(<<"Service">>) -> "delete_namespaced_service"
      [] OTHER -> "delete_namespaced_pod"

DeleteOp_top(kind) ==
    CASE kind = PyStr(<<"Pod">>) -> "delete_namespaced_pod"
      [] kind = PyStr(<<"Deployment">>) -> "delete_namespaced_deployment"
      [] kind = PyStr(<<"Service">>) -> "delete_namespaced_service"
      [] OTHER -> ""

delete_resource_top(kind, name, namespace, o) ==
    LET api == <<Call(DeleteOp_top(kind), <<name, namespace>>)>> IN
    IF DeleteOp_top(kind) = ""
    THEN Raised("Exception", <<"Unsupported resource kind: ">> \o Format(kind), <<>>)
    ELSE IF o[1] = "ok"
    THEN Returned(PyDict(<< <<"status", PyStr(<<"deleted">>)>>, <<"kind", kind>>,
                            <<"name", name>>, <<"namespace", namespace>> >>), api)
    ELSE ApiFailure_top(o[1], <<"Failed to delete resource: ">>, api)

(******************* K3sClient, src/k3s_mcp_server/server.py ***************)

\* except ApiException as e: raise Exception(f"<prefix>{e}"); any other
\* exception leaves the method as it is.
ApiFailure_src(out, prefix, api) ==
    IF out = "api" THEN Raised("Exception", prefix \o ApiExceptionStr, api)
    ELSE Raised("MaxRetryError", ConnErrorStr, api)

get_pods_src(namespace, labels, o, w) ==
    LET api == IF Truthy(namespace)
               THEN <<Call("list_namespaced_pod", <<namespace, OrEmpty(labels)>>)>>
               ELSE <<Call("list_pod_for_all_namespaces", <<OrEmpty(labels)>>)>>
    IN  IF o[1] = "ok" THEN Returned(PyList(ItemInfos(w.items)), api)
        ELSE ApiFailure_src(o[1], <<"Failed to list pods: ">>, api)

get_deployments_src(namespace, o, w) ==
    LET api == IF Truthy(namespace)
               THEN <<Call("list_namespaced_deployment", <<namespace>>)>>
               ELSE <<Call("list_deployment_for_all_namespaces", <<>>)>>
    IN  IF o[1] = "ok" THEN Returned(PyList(ItemInfos(w.items)), api)
        ELSE ApiFailure_src(o[1], <<"Failed to list deployments: ">>, api)

get_deployment_src(name, namespace, o, w) ==
    LET api == <<Call("read_namespaced_deployment", <<name, namespace>>)>>
    IN  IF o[1] = "ok"
        THEN Returned(PyDict(<< <<"name", name>>, <<"namespace", namespace>>,
                                <<"replicas", PyDict(<< <<"desired", PyInt(w.replicas)>> >>)>> >>), api)
        ELSE ApiFailure_src(o[1], <<"Failed to get deployment ">> \o Format(name) \o <<": ">>, api)

get_services_src(namespace, o, w) ==
    LET api == IF Truthy(namespace)
               THEN <<Call("list_namespaced_service", <<namespace>>)>>
               ELSE <<Call("list_service_for_all_namespaces", <<>>)>>
    IN  IF o[1] = "ok" THEN Returned(PyList(ItemInfos(w.items)), api)
        ELSE ApiFailure_src(o[1], <<"Failed to list services: ">>, api)

\* get_nodes is also called by get_cluster_info, as its second API call.
get_nodes_src(out, w) ==
    LET api == <<Call("list_node", <<>>)>>
    IN  IF out = "ok" THEN Returned(PyList(ItemInfos(w.items)), api)
        ELSE ApiFailure_src(out, <<"Failed to list nodes: ">>, api)

\* A faulty scale that sends the patch twice.
scale_deployment_src_twice(name, namespace, replicas, o) ==
    LET patch == Call("patch_namespaced_deployment_scale", <<name, namespace, replicas>>)
    IN  IF o[1] = "ok"
        THEN Returned(PyDict(<< <<"name", name>>, <<"namespace", namespace>>,
                                <<"replicas", replicas>>,
                                <<"status", PyStr(<<"Scaled successfully">>)>> >>),
                      <<patch, patch>>)
        ELSE ApiFailure_src(o[1], <<"Failed to scale deployment ">> \o Format(name) \o <<": ">>,
                            <<patch>>)

scale_deployment_src(name, namespace, replicas, o) ==
    LET api == <<Call("patch_namespaced_deployment_scale", <<name, namespace, replicas>>)>>
    IN  IF o[1] = "ok"
        THEN Returned(PyDict(<< <<"name", name>>, <<"namespace", namespace>>,
                                <<"replicas", replicas>>,
                                <<"status", PyStr(<<"Scaled successfully">>)>> >>), api)
        ELSE ApiFailure_src(o[1], <<"Failed to scale deployment ">> \o Format(name) \o <<": ">>, api)

restart_pod_src(name, namespace, o) ==
    LET api == <<Call("delete_namespaced_pod", <<name, namespace>>)>>
    IN  IF o[1] = "ok"
        THEN Returned(PyDict(<< <<"name", name>>, <<"namespace", namespace>>,
                                <<"status", PyStr(<<"Pod deleted (will be recreated by controller)">>)>> >>), api)
        ELSE ApiFailure_src(o[1], <<"Failed to delete pod ">> \o Format(name) \o <<": ">>, api)

get_logs_src(pod_name, namespace, container, tail_lines, o, w) ==
    LET api == <<Call("read_namespaced_pod_log", <<pod_name, namespace, container, tail_lines>>)>>
    IN  IF o[1] = "ok" THEN Returned(PyStr(w.text), api)
        ELSE ApiFailure_src(o[1], <<"Failed to get logs for pod ">> \o Format(pod_name) \o <<": ">>, api)

execute_command_src(pod_name, namespace, command, container, o, w) ==
    LET api == <<Call("connect_get_namespaced_pod_exec", <<pod_name, namespace, command, container>>)>>
    IN  IF o[1] = "ok" THEN Returned(PyStr(w.text), api)
        ELSE ApiFailure_src(o[1], <<"Failed to execute command in pod ">> \o Format(pod_name) \o <<": ">>, api)

ClusterKinds ==
    {PyStr(<<"Namespace">>), PyStr(<<"Node">>), PyStr(<<"PersistentVolume">>),
     PyStr(<<"ClusterRole">>), PyStr(<<"ClusterRoleBinding">>)}

apply_manifest_src(manifest_yaml, namespace, default_namespace, o) ==
    IF ~manifest_yaml.valid
    THEN Raised("Exception", <<"Failed to parse YAML manifest: ">> \o YamlErrorStr, <<>>)
    ELSE IF Len(manifest_yaml.docs) > 1
    THEN Raised("Exception", <<"Failed to parse YAML manifest: ">> \o YamlComposerErrorStr, <<>>)
    ELSE LET manifest == IF manifest_yaml.docs = <<>> THEN PyNone ELSE manifest_yaml.docs[1] IN
    IF manifest.t = "null"
    THEN Raised("AttributeError", <<"'NoneType' object has no attribute 'get'">>, <<>>)
    ELSE IF ~IsMapping(manifest)
    THEN Raised("AttributeError", <<"'str' object has no attribute 'get'">>, <<>>)
    ELSE LET kind == manifest.kind
             resource_namespace == OrElse(namespace, MetaNamespace(manifest, PyStr(default_namespace)))
             name == IF manifest.hasMeta THEN manifest.name ELSE PyNone
             api == <<Call(CreateOp(kind), <<resource_namespace, name>>)>>
             \* if "namespace" not in metadata and kind not in [...]:
             \*     manifest["metadata"]["namespace"] = resource_namespace
             setsNamespace == ~(manifest.hasMeta /\ manifest.hasNs) /\ kind \notin ClusterKinds
         IN  IF setsNamespace /\ ~manifest.hasMeta
             THEN Raised("KeyError", <<"'", "metadata", "'">>, <<>>)
             ELSE IF CreateOp(kind) = ""
             THEN Raised("Exception", <<"Unsupported resource kind: ">> \o Format(kind), <<>>)
             ELSE IF o[1] = "ok"
             THEN Returned(PyDict(<< <<"kind", kind>>, <<"name", name>>,
                                     <<"namespace", resource_namespace>>,
                                     <<"status", PyStr(<<"Created successfully">>)>> >>), api)
             ELSE ApiFailure_src(o[1], <<"Failed to apply manifest: ">>, api)

DeleteOp_src(kind) ==
    CASE Lower(kind.s) = <<"pod">> -> "delete_namespaced_pod"
      [] Lower(kind.s) = <<"deployment">> -> "delete_namespaced_deployment"
      [] Lower(kind.s) = <<"service">> -> "delete_namespaced_service"
      [] OTHER -> ""

delete_resource_src(kind, name, namespace, o) ==
    LET api == <<Call(DeleteOp_src(kind), <<name, namespace>>)>> IN
    IF DeleteOp_src(kind) = ""
    THEN Raised("Exception", <<"Unsupported resource kind for deletion: ">> \o Format(kind), <<>>)
    ELSE IF o[1] = "ok"
    THEN Returned(PyDict(<< <<"kind", kind>>, <<"name", name>>, <<"namespace", namespace>>,
                            <<"status", PyStr(<<"Deleted successfully">>)>> >>), api)
    ELSE ApiFailure_src(o[1], <<"Failed to delete ">> \o Format(kind) \o <<" ">> \o Format(name) \o <<": ">>, api)

get_namespaces_src(out, w) ==
    LET api == <<Call("list_namespace", <<>>)>>
    IN  IF out = "ok" THEN Returned(PyList(ItemInfos(w.items)), api)
        ELSE ApiFailure_src(out, <<"Failed to list namespaces: ">>, api)

get_cluster_info_src(o, w) ==
    LET c1 == Call("get_code", <<>>)
        nodes == get_nodes_src(o[2], w)
        namespaces == get_namespaces_src(o[3], w)
    IN  IF o[1] # "ok" THEN ApiFailure_src(o[1], <<"Failed to get cluster info: ">>, <<c1>>)
        ELSE IF ~nodes.ok THEN [nodes EXCEPT !.api = <<c1>> \o nodes.api]
        ELSE IF ~namespaces.ok
        THEN [namespaces EXCEPT !.api = <<c1>> \o nodes.api \o namespaces.api]
        ELSE Returned(PyDict(<< <<"version", PyDict(<< <<"git_version", PyStr(<<"v1.28.5+k3s1">>)>> >>)>>,
                                <<"nodes", PyDict(<< <<"total", PyInt(Len(w.items))>> >>)>>,
                                <<"namespaces", PyDict(<< <<"total", PyInt(Len(w.items))>> >>)>> >>),
                      <<c1>> \o nodes.api \o namespaces.api)

(****************************** tool registry ******************************)

Tool(name, properties, required) ==
    [name |-> name, properties |-> properties, required |-> required]

\* A faulty catalogue that lists the log tool under the name of its
\* K3sClient method.
TOOLS_top_renamed ==
    << Tool("get_pods", <<"namespace", "labels">>, <<>>),
       Tool("get_pod_logs", <<"pod_name", "namespace">>, <<"pod_name", "namespace">>) >>

TOOLS_top ==
    << Tool("get_pods", <<"namespace", "labels">>, <<>>),
       Tool("get_logs", <<"pod_name", "namespace", "container", "tail_lines">>,
            <<"pod_name", "namespace">>),
       Tool("execute_command", <<"pod_name", "namespace", "command", "container">>,
            <<"pod_name", "namespace", "command">>),
       Tool("restart_pod", <<"pod_name", "namespace">>, <<"pod_name", "namespace">>),
       Tool("get_deployments", <<"namespace">>, <<>>),
       Tool("get_deployment", <<"name", "namespace">>, <<"name", "namespace">>),
       Tool("scale_deployment", <<"name", "namespace", "replicas">>,
            <<"name", "namespace", "replicas">>),
       Tool("get_services", <<"namespace">>, <<>>),
       Tool("get_nodes", <<>>, <<>>),
       Tool("get_cluster_info", <<>>, <<>>),
       Tool("get_namespaces", <<>>, <<>>),
       Tool("apply_manifest", <<"manifest_yaml", "namespace">>, <<"manifest_yaml">>),
       Tool("delete_resource", <<"kind", "name", "namespace">>,
            <<"kind", "name", "namespace">>) >>

\* A faulty catalogue whose scale_deployment schema requires the namespace
\* the router has a default for.
TOOLS_src_strict ==
    << Tool("scale_deployment", <<"name", "namespace", "replicas">>,
            <<"name", "namespace", "replicas">>),
       Tool("get_nodes", <<>>, <<>>) >>

\* A faulty catalogue that registers get_pods twice.
TOOLS_src_dup ==
    << Tool("get_pods", <<"namespace", "labels">>, <<>>),
       Tool("get_pods", <<"namespace">>, <<>>),
       Tool("get_nodes", <<>>, <<>>) >>

TOOLS_src ==
    << Tool("get_pods", <<"namespace", "labels">>, <<>>),
       Tool("get_deployments", <<"namespace">>, <<>>),
       Tool("get_deployment", <<"name", "namespace">>, <<"name">>),
       Tool("get_services", <<"namespace">>, <<>>),
       Tool("get_nodes", <<>>, <<>>),
       Tool("scale_deployment", <<"name", "namespace", "replicas">>, <<"name", "replicas">>),
       Tool("restart_pod", <<"name", "namespace">>, <<"name">>),
       Tool("get_logs", <<"pod_name", "namespace", "container", "tail_lines">>, <<"pod_name">>),
       Tool("execute_command", <<"pod_name", "namespace", "command", "container">>,
            <<"pod_name", "command">>),
       Tool("apply_manifest", <<"manifest_yaml", "namespace">>, <<"manifest_yaml">>),
       Tool("delete_resource", <<"kind", "name", "namespace">>, <<"kind", "name">>),
       Tool("get_namespaces", <<>>, <<>>),
       Tool("get_cluster_info", <<>>, <<>>) >>

TOOLS(i) == IF i = "top" THEN TOOLS_top ELSE TOOLS_src

\* list_tools() returns the module's TOOLS list, the object itself.
list_tools(tool_list) == tool_list

Range(f) == {f[x] : x \in DOMAIN f}
ToolNames(i) == {TOOLS(i)[k].name : k \in DOMAIN TOOLS(i)}
Descriptor(i, name) == CHOOSE d \in Range(TOOLS(i)) : d.name = name

(****************************** request router *****************************)

\* arguments.get(k) and arguments.get(k, d)
Get(args, k) == IF k \in DOMAIN args THEN args[k] ELSE PyNone
\* A faulty lookup that forgets the default.
GetOr_none(args, k, d) == IF k \in DOMAIN args THEN args[k] ELSE PyNone
GetOr(args, k, d) == IF k \in DOMAIN args THEN args[k] ELSE d

\* The first of the subscripted keys (in evaluation order) that is not in
\* the bag, "" when all are there: arguments[k] raises KeyError(k) for it.
FirstMissing(args, keys) ==
    IF \A j \in DOMAIN keys : keys[j] \in DOMAIN args THEN ""
    ELSE keys[CHOOSE j \in DOMAIN keys :
                /\ keys[j] \notin DOMAIN args
                /\ \A h \in 1..(j - 1) : keys[h] \in DOMAIN args]

\* What the body of the try block came to: the K3sClient method invoked (cap,
\* empty when none was) and how the body ended (r).
Invoked(op, args, r) == [cap |-> <<Call(op, args)>>, r |-> r]
NotInvoked(cls, msg) == [cap |-> <<>>, r |-> Raised(cls, msg, <<>>)]
\* str(KeyError(k)) is repr(k)
KeyError(k) == NotInvoked("KeyError", <<"'", k, "'">>)
\* Faulty variant of UnknownTool: the final else lists the pods instead of
\* raising.
UnknownTool_fallback(name) ==
    Invoked("get_pods", <<PyNone, PyNone>>,
            Returned(PyList(<<>>), <<Call("list_pod_for_all_namespaces", <<PyStr(<<>>)>>)>>))
UnknownTool(name) == NotInvoked("ValueError", <<"Unknown tool: ", name>>)

\* Faulty variant of Subscripting: the subscripts are evaluated last to
\* first, so the KeyError names the last missing key.
Subscripting_reversed(args, keys, invocation) ==
    IF FirstMissing(args, keys) # "" 
    THEN KeyError(keys[CHOOSE j \in DOMAIN keys :
                        /\ keys[j] \notin DOMAIN args
                        /\ \A h \in (j + 1)..Len(keys) : keys[h] \in DOMAIN args])
    ELSE invocation

\* Subscripts keys in order, then invokes.
Subscripting(args, keys, invocation) ==
    IF FirstMissing(args, keys) # "" THEN KeyError(FirstMissing(args, keys))
    ELSE invocation

Dispatch_top(name, a, dns, o, w) ==
    CASE name = "get_pods" ->
            Invoked("get_pods", <<Get(a, "namespace"), Get(a, "labels")>>,
                    get_pods_top(Get(a, "namespace"), Get(a, "labels"), o, w))
      [] name = "get_logs" ->
            Subscripting(a, <<"pod_name", "namespace">>,
              Invoked("get_pod_logs",
                      <<a["pod_name"], a["namespace"], Get(a, "container"),
                        GetOr(a, "tail_lines", PyInt(100))>>,
                      get_pod_logs_top(a["pod_name"], a["namespace"], Get(a, "container"),
                                       GetOr(a, "tail_lines", PyInt(100)), o, w)))
      [] name = "execute_command" ->
            Subscripting(a, <<"pod_name", "namespace", "command">>,
              Invoked("execute_command",
                      <<a["pod_name"], a["namespace"], a["command"], Get(a, "container")>>,
                      execute_command_top(a["pod_name"], a["namespace"], a["command"],
                                          Get(a, "container"), o, w)))
      [] name = "restart_pod" ->
            Subscripting(a, <<"pod_name", "namespace">>,
              Invoked("delete_pod", <<a["pod_name"], a["namespace"]>>,
                      delete_pod_top(a["pod_name"], a["namespace"], o)))
      [] name = "get_deployments" ->
            Invoked("get_deployments", <<Get(a, "namespace")>>,
                    get_deployments_top(Get(a, "namespace"), o, w))
      [] name = "get_deployment" ->
            Subscripting(a, <<"name", "namespace">>,
              Invoked("get_deployment", <<a["name"], a["namespace"]>>,
                      get_deployment_top(a["name"], a["namespace"], o, w)))
      [] name = "scale_deployment" ->
            Subscripting(a, <<"name", "namespace", "replicas">>,
              Invoked("scale_deployment", <<a["name"], a["namespace"], a["replicas"]>>,
                      scale_deployment_top(a["name"], a["namespace"], a["replicas"], o)))
      [] name = "get_services" ->
            Invoked("get_services", <<Get(a, "namespace")>>,
                    get_services_top(Get(a, "namespace"), o, w))
      [] name = "get_nodes" -> Invoked("get_nodes", <<>>, get_nodes_top(o, w))
      [] name = "get_cluster_info" ->
            Invoked("get_cluster_info", <<>>, get_cluster_info_top(o, w))
      [] name = "get_namespaces" -> Invoked("get_namespaces", <<>>, get_namespaces_top(o, w))
      [] name = "apply_manifest" ->
            Subscripting(a, <<"manifest_yaml">>,
              Invoked("apply_manifest", <<a["manifest_yaml"], Get(a, "namespace")>>,
                      apply_manifest_top(a["manifest_yaml"], Get(a, "namespace"), dns, o)))
      [] name = "delete_resource" ->
            Subscripting(a, <<"kind", "name", "namespace">>,
              Invoked("delete_resource", <<a["kind"], a["name"], a["namespace"]>>,
                      delete_resource_top(a["kind"], a["name"], a["namespace"], o)))
      [] OTHER -> UnknownTool(name)

\* if "namespace" in arguments and not arguments.get("namespace"):
\*     arguments["namespace"] = DEFAULT_NAMESPACE
DefaultedArguments_src(a, dns) ==
    IF "namespace" \in DOMAIN a /\ ~Truthy(a["namespace"])
    THEN [a EXCEPT !["namespace"] = PyStr(dns)]
    ELSE a

Dispatch_src(name, args, dns, o, w) ==
    LET a == DefaultedArguments_src(args, dns)
        ns == GetOr(a, "namespace", PyStr(dns))
    IN
    CASE name = "get_pods" ->
            Invoked("get_pods", <<Get(a, "namespace"), Get(a, "labels")>>,
                    get_pods_src(Get(a, "namespace"), Get(a, "labels"), o, w))
      [] name = "get_deployments" ->
            Invoked("get_deployments", <<Get(a, "namespace")>>,
                    get_deployments_src(Get(a, "namespace"), o, w))
      [] name = "get_deployment" ->
            Subscripting(a, <<"name">>,
              Invoked("get_deployment", <<a["name"], ns>>,
                      get_deployment_src(a["name"], ns, o, w)))
      [] name = "get_services" ->
            Invoked("get_services", <<Get(a, "namespace")>>,
                    get_services_src(Get(a, "namespace"), o, w))
      [] name = "get_nodes" -> Invoked("get_nodes", <<>>, get_nodes_src(o[1], w))
      [] name = "scale_deployment" ->
            Subscripting(a, <<"name", "replicas">>,
              Invoked("scale_deployment", <<a["name"], ns, a["replicas"]>>,
                      scale_deployment_src(a["name"], ns, a["replicas"], o)))
      [] name = "restart_pod" ->
            Subscripting(a, <<"name">>,
              Invoked("restart_pod", <<a["name"], ns>>, restart_pod_src(a["name"], ns, o)))
      [] name = "get_logs" ->
            Subscripting(a, <<"pod_name">>,
              Invoked("get_logs",
                      <<a["pod_name"], ns, Get(a, "container"),
                        GetOr(a, "tail_lines", PyInt(100))>>,
                      get_logs_src(a["pod_name"], ns, Get(a, "container"),
                                   GetOr(a, "tail_lines", PyInt(100)), o, w)))
      [] name = "execute_command" ->
            Subscripting(a, <<"pod_name", "command">>,
              Invoked("execute_command",
                      <<a["pod_name"], ns, a["command"], Get(a, "container")>>,
                      execute_command_src(a["pod_name"], ns, a["command"],
                                          Get(a, "container"), o, w)))
      [] name = "apply_manifest" ->
            Subscripting(a, <<"manifest_yaml">>,
              Invoked("apply_manifest", <<a["manifest_yaml"], Get(a, "namespace")>>,
                      apply_manifest_src(a["manifest_yaml"], Get(a, "namespace"), dns, o)))
      [] name = "delete_resource" ->
            Subscripting(a, <<"kind", "name">>,
              Invoked("delete_resource", <<a["kind"], a["name"], ns>>,
                      delete_resource_src(a["kind"], a["name"], ns, o)))
      [] name = "get_namespaces" -> Invoked("get_namespaces", <<>>, get_namespaces_src(o[1], w))
      [] name = "get_cluster_info" ->
            Invoked("get_cluster_info", <<>>, get_cluster_info_src(o, w))
      [] OTHER -> UnknownTool(name)

\* Faulty variant of Response: the except clause ends the process, as the
\* one of main does.
Response_exit(content, outcome, d) ==
    [content |-> content, outcome |-> outcome, exc |-> d.r.exc, val |-> d.r.val,
     cap |-> d.cap, api |-> d.r.api, tools |-> <<>>, exited |-> (outcome = "Failure")]

\* What call_tool hands back: the list of TextContent it returned (content,
\* the texts), and for the record of the run the branch it returned from
\* (outcome), the exception the except clause caught (exc), the value the
\* K3sClient method returned (val), and the K3sClient method (cap) and the
\* API calls (api) of the request.  exited: the handler ended the process
\* instead of returning; try/except Exception returns on both branches.
Response(content, outcome, d) ==
    [content |-> content, outcome |-> outcome, exc |-> d.r.exc, val |-> d.r.val,
     cap |-> d.cap, api |-> d.r.api, tools |-> <<>>, exited |-> FALSE]

\* Faulty variant of SuccessContent_top: every result goes through json.dumps.
SuccessContent_top_json(name, result) == <<json_dumps(result)>>

\* return [TextContent(type="text", text=logs)] for get_logs and
\* execute_command, json.dumps(result, indent=2) for the rest.
SuccessContent_top(name, result) ==
    IF name \in {"get_logs", "execute_command"} THEN <<result.s>>
    ELSE <<json_dumps(result)>>

\* Faulty variant of ErrorContent_top: the message of the exception is
\* replaced by a fixed one.
ErrorContent_top_generic(name, e) ==
    <<json_dumps(PyDict(<< <<"error", PyStr(<<"Internal error">>)>> >>))>>

\* return [TextContent(type="text", text=json.dumps({"error": str(e)}, indent=2))]
ErrorContent_top(name, e) ==
    <<json_dumps(PyDict(<< <<"error", PyStr(e.msg)>> >>))>>

call_tool_top(name, arguments, dns, o, w) ==
    LET d == Dispatch_top(name, arguments, dns, o, w) IN
    IF d.r.ok THEN Response(SuccessContent_top(name, d.r.val), "Success", d)
    ELSE Response(ErrorContent_top(name, d.r.exc), "Failure", d)

\* if isinstance(result, str): text=result, else json.dumps(result, indent=2)
SuccessContent_src(name, result) ==
    IF result.t = "str" THEN <<result.s>> ELSE <<json_dumps(result)>>

\* Faulty variant of ErrorContent_src: the error is logged and nothing is
\* returned to the client.
ErrorContent_src_silent(name, e) == <<>>

\* error_msg = f"Error executing {name}: {str(e)}"
ErrorContent_src(name, e) == << <<"Error executing ", name, ": ">> \o e.msg >>

call_tool_src(name, arguments, dns, o, w) ==
    LET d == Dispatch_src(name, arguments, dns, o, w) IN
    IF d.r.ok THEN Response(SuccessContent_src(name, d.r.val), "Success", d)
    ELSE Response(ErrorContent_src(name, d.r.exc), "Failure", d)

call_tool(i, name, arguments, dns, o, w) ==
    IF i = "top" THEN call_tool_top(name, arguments, dns, o, w)
    ELSE call_tool_src(name, arguments, dns, o, w)

(**************************** inputs of a request **************************)

UnknownNames == {"bogus", "get_pod_logs", "delete_pod"}

Kinds == {PyStr(<<"Pod">>), PyStr(<<"ConfigMap">>)}
MetaShapes == { [hasMeta |-> FALSE, hasNs |-> FALSE, name |-> PyNone, ns |-> PyNone],
                [hasMeta |-> TRUE, hasNs |-> FALSE, name |-> PyStr(<<"m">>), ns |-> PyNone],
                [hasMeta |-> TRUE, hasNs |-> TRUE, name |-> PyStr(<<"m">>), ns |-> PyStr(<<"mns">>)] }
Doc(kind, m) ==
    [t |-> "doc", kind |-> kind, hasMeta |-> m.hasMeta, name |-> m.name,
     hasNs |-> m.hasNs, ns |-> m.ns]
Docs == {PyNone, [t |-> "scalar"]} \cup {Doc(k, m) : k \in Kinds \cup {PyStr(<<"Service">>)}, m \in MetaShapes}
\* The documents of the manifests of more than one document.
CoreDocs ==
    {PyNone} \cup {Doc(k, CHOOSE m \in MetaShapes : m.hasMeta /\ ~m.hasNs) : k \in Kinds}
    \cup {Doc(PyStr(<<"Service">>), CHOOSE m \in MetaShapes : m.hasNs)}

RECURSIVE SeqsOf(_, _)
SeqsOf(S, n) == IF n = 0 THEN {<<>>} ELSE {Append(q, x) : q \in SeqsOf(S, n - 1), x \in S}

Yaml(valid, docs) == [t |-> "yaml", valid |-> valid, docs |-> docs]
Manifests ==
    {Yaml(FALSE, <<>>), Yaml(TRUE, <<>>)}
    \cup {Yaml(TRUE, <<d>>) : d \in Docs}
    \cup UNION {{Yaml(TRUE, q) : q \in SeqsOf(CoreDocs, n)} : n \in 2..MaxDocs}

Values(key) ==
    CASE key = "namespace" -> {PyStr(<<"ns">>), PyStr(<<>>), PyNone}
      [] key = "labels" -> {PyStr(<<"app=web">>)}
      [] key = "pod_name" -> {PyStr(<<"x">>)}
      [] key = "name" -> {PyStr(<<"web">>), PyStr(<<"x">>)}
      [] key = "container" -> {PyStr(<<"c">>)}
      [] key = "tail_lines" -> {PyInt(5), PyInt(0)}
      [] key = "command" -> {PyList(<<PyStr(<<"ls">>)>>)}
      [] key = "replicas" -> {PyInt(3), PyInt(0)}
      [] key = "kind" -> {PyStr(<<"Pod">>), PyStr(<<"Deployment">>), PyStr(<<"Service">>),
                          PyStr(<<"ConfigMap">>), PyStr(<<"pod">>)}
      [] key = "manifest_yaml" -> Manifests

EmptyBag == [k \in {} |-> PyNone]
With(f, key, v) == [k \in DOMAIN f \cup {key} |-> IF k = key THEN v ELSE f[k]]

\* Every argument bag over the given keys: each key absent or bound to one
\* of its values.
RECURSIVE BagsOver(_)
BagsOver(keys) ==
    IF keys = <<>> THEN {EmptyBag}
    ELSE LET rest == BagsOver(Tail(keys)) IN
         rest \cup {With(f, Head(keys), v) : f \in rest, v \in Values(Head(keys))}

\* The bags a request for name may carry: over the properties of the tool's
\* schema; for a name that is no tool, over two common keys.
Bags(i, name) ==
    IF name \in ToolNames(i) THEN BagsOver(Descriptor(i, name).properties)
    ELSE BagsOver(<<"namespace", "name">>)

\* How many API calls a request for name can make at most.
ApiCallsOf(name) ==
    CASE name = "get_cluster_info" -> 3
      [] name = "scale_deployment" -> 2
      [] name = "apply_manifest" -> MaxDocs
      [] name \in UnknownNames -> 0
      [] OTHER -> 1

\* The outcomes of the API calls of one request, in call order.
Oracles(name) ==
    {o \in [1..OracleLen -> ApiOutcomes] : \A j \in 1..OracleLen : j > ApiCallsOf(name) => o[j] = "ok"}

Item(name, namespace) == [name |-> name, namespace |-> namespace]
ItemLists == {<<>>, <<Item(<<"web">>, <<"ns">>), Item(<<"x">>, <<"default">>)>>}

\* Texts a pod can log or a command can write; a pod logs what its program
\* writes, which can be any text, a JSON object or an error line included.
Texts ==
    { <<>>,
      <<"started", "\n", "ready">>,
      <<"{", "\n", "  ", "\"", "error", "\"", ": ", "\"", "'", "namespace", "'", "\"", "\n", "}">>,
      <<"Error executing ", "get_logs", ": ", "'", "pod_name", "'">> }

\* What the cluster holds when the request is made, as far as the request
\* reads it: the items a list call returns, the text a log or exec call
\* returns, the replica count of the deployment read.
Worlds(name) ==
    [items : IF name \in {"get_logs", "execute_command"} THEN {<<>>} ELSE ItemLists,
     text : IF name \in {"get_logs", "execute_command"} THEN Texts ELSE {<<>>},
     replicas : {2}]

(******************************* the server ********************************)

NoRequest == [method |-> "", name |-> "", arguments |-> EmptyBag]
NoResponse ==
    [content |-> <<>>, outcome |-> "", exc |-> NoExc, val |-> PyNone,
     cap |-> <<>>, api |-> <<>>, tools |-> <<>>, exited |-> FALSE]

\* The requests that can be in flight at once, and a handler invocation that
\* has not been entered.
Slots == {1, 2}
NoFrame == [name |-> "", arguments |-> EmptyBag, o |-> <<>>, w |-> <<>>,
            default_namespace |-> <<>>, k |-> 0]
NoTask == [stage |-> "none", request |-> NoRequest, answer |-> NoResponse]

\* os.getenv(key, default): the value of the variable, the default when it
\* is not set (PyNone here).
getenv(value, default) == IF value = PyNone THEN default ELSE value.s

\* The process environments and clusters a run starts in.
Environments ==
    { [K3S_DEFAULT_NAMESPACE |-> PyNone, KUBECONFIG |-> PyNone, K3S_DEBUG |-> PyNone,
       file |-> "ok", cluster |-> "reachable"],
      [K3S_DEFAULT_NAMESPACE |-> PyStr(<<"team-a">>), KUBECONFIG |-> PyStr(<<"/etc/k3s.yaml">>),
       K3S_DEBUG |-> PyStr(<<"True">>), file |-> "ok", cluster |-> "unreachable"],
      [K3S_DEFAULT_NAMESPACE |-> PyNone, KUBECONFIG |-> PyNone, K3S_DEBUG |-> PyNone,
       file |-> "missing", cluster |-> "reachable"],
      [K3S_DEFAULT_NAMESPACE |-> PyNone, KUBECONFIG |-> PyStr(<<"/etc/k3s.yaml">>),
       K3S_DEBUG |-> PyStr(<<"false">>), file |-> "unloadable", cluster |-> "reachable"] }

\* The process has been started: the configuration lines of the module have
\* run, the rest of the import and main have not.
\*   KUBECONFIG_PATH = os.getenv("KUBECONFIG", str(Path.home() / ".kube" / ...))
\*   DEFAULT_NAMESPACE = os.getenv("K3S_DEFAULT_NAMESPACE", "default")
\*   DEBUG = os.getenv("K3S_DEBUG", "false").lower() == "true"
Init ==
    /\ impl \in {"top", "src"}
    /\ \E e \in Environments :
         /\ env = getenv(e.K3S_DEFAULT_NAMESPACE, <<"default">>)
         /\ KUBECONFIG_PATH = getenv(e.KUBECONFIG, <<"~/.kube/k3s-cortex-config.yaml">>)
         /\ DEBUG = (Lower(getenv(e.K3S_DEBUG, <<"false">>)) = <<"true">>)
         /\ kubeconfig = e.file
         /\ cluster = e.cluster
    /\ DEFAULT_NAMESPACE = env
    /\ tools = TOOLS(impl)
    /\ alive = TRUE
    /\ pc = "starting"
    /\ hist = <<>>
    /\ task = [p \in Slots |-> NoTask]
    /\ frame = [p \in Slots |-> NoFrame]
    /\ calls = <<>>
    /\ req = NoRequest
    /\ resp = NoResponse
    /\ nServed = 0
    /\ nFailed = 0

\* The rest of the import and main up to app.run: "serving" when the server
\* starts to serve, "exited" when the process terminates first.
\* top: sys.exit(1) when the file is missing (lines 45-49); K3sClient()
\* re-raises what load_kube_config raises, which ends the import (66-82);
\* main prints a warning when get_cluster_info raises and goes on (930-936).
startup_top(file, reach) ==
    IF file = "missing" THEN "exited"
    ELSE IF file = "unloadable" THEN "exited"
    ELSE IF reach = "unreachable" THEN "serving"
    ELSE "serving"
\* src: _load_config calls sys.exit(1) when the file is missing or
\* load_kube_config raises (64-79); main makes no API call (795-807).
startup_src(file, reach) ==
    IF file = "missing" THEN "exited"
    ELSE IF file = "unloadable" THEN "exited"
    ELSE "serving"
startup(i, file, reach) ==
    IF i = "top" THEN startup_top(file, reach) ELSE startup_src(file, reach)

Startup ==
    /\ pc = "starting"
    /\ LET s == startup(impl, kubeconfig, cluster) IN
       /\ pc' = IF s = "serving" THEN "idle" ELSE "exited"
       /\ alive' = (s = "serving")
    /\ UNCHANGED <<impl, env, DEFAULT_NAMESPACE, KUBECONFIG_PATH, DEBUG, kubeconfig,
                   cluster, tools, req, resp, nServed, nFailed, hist>>
    /\ UNCHANGED overlap

\* A faulty handler that rebinds the module's default to the namespace of
\* the request.
DEFAULT_NAMESPACE_after_rebind(i, arguments, default_namespace) ==
    IF "namespace" \in DOMAIN arguments /\ arguments["namespace"].t = "str"
    THEN arguments["namespace"].s ELSE default_namespace
\* A faulty handler that removes the first descriptor of the list.
TOOLS_after_pop(i, arguments, tool_list) == Tail(tool_list)

\* What call_tool leaves in the module's DEFAULT_NAMESPACE and TOOLS: it
\* declares no global and assigns to neither; the src module assigns to
\* arguments["namespace"], a key of the request's own dict.
DEFAULT_NAMESPACE_after(i, arguments, default_namespace) == default_namespace
TOOLS_after(i, arguments, tool_list) == tool_list

\* The tools/list handler.
ListTools ==
    /\ alive /\ pc = "idle" /\ nServed < MaxRequests
    /\ req' = [NoRequest EXCEPT !.method = "tools/list"]
    /\ resp' = [NoResponse EXCEPT !.outcome = "Success", !.tools = list_tools(tools)]
    /\ pc' = "responded"
    /\ nServed' = nServed + 1
    /\ UNCHANGED <<impl, env, DEFAULT_NAMESPACE, KUBECONFIG_PATH, DEBUG, kubeconfig,
                   cluster, tools, alive, nFailed, hist>>
    /\ UNCHANGED overlap

\* call_tool runs from the request to the returned content, the API calls
\* ending as o says on a cluster that holds w.
Handle(name, arguments, o, w) ==
    LET r == call_tool(impl, name, arguments, DEFAULT_NAMESPACE, o, w) IN
    /\ req' = [method |-> "tools/call", name |-> name, arguments |-> arguments]
    /\ resp' = r
    /\ nFailed' = IF r.outcome = "Failure" THEN nFailed + 1 ELSE nFailed
    /\ alive' = ~r.exited
    /\ DEFAULT_NAMESPACE' = DEFAULT_NAMESPACE_after(impl, arguments, DEFAULT_NAMESPACE)
    /\ tools' = TOOLS_after(impl, arguments, tools)
    /\ pc' = "responded"
    /\ nServed' = nServed + 1
    /\ UNCHANGED <<impl, env, KUBECONFIG_PATH, DEBUG, kubeconfig, cluster>>

\* The tools/call handler, for every request.
CallTool ==
    /\ alive /\ pc = "idle" /\ nServed < MaxRequests
    /\ \E name \in ToolNames(impl) \cup UnknownNames :
       \E arguments \in Bags(impl, name) :
       \E o \in Oracles(name) :
       \E w \in Worlds(name) :
         Handle(name, arguments, o, w)
    /\ UNCHANGED hist
    /\ UNCHANGED overlap

\* The response is written to the client; request and response are dropped.
Reply ==
    /\ pc = "responded"
    /\ pc' = "idle"
    /\ req' = NoRequest
    /\ resp' = NoResponse
    /\ UNCHANGED <<impl, env, DEFAULT_NAMESPACE, KUBECONFIG_PATH, DEBUG, kubeconfig,
                   cluster, tools, alive, nServed, nFailed, hist>>
    /\ UNCHANGED overlap

Next == Startup \/ ListTools \/ CallTool \/ Reply

Spec == Init /\ [][Next]_vars

(*********************** runs with repeated requests ***********************)

\* Bound on the number of requests of a run that keeps its history.
MaxRepeat == 3

AllOk == [j \in 1..OracleLen |-> "ok"]
FirstFails == [AllOk EXCEPT ![1] = "api"]
Request(name, arguments, o) ==
    [name |-> name, arguments |-> arguments, o |-> o,
     w |-> [items |-> <<>>, text |-> <<"started", "\n", "ready">>, replicas |-> 2]]
Bag1(k1, v1) == With(EmptyBag, k1, v1)
Bag2(k1, v1, k2, v2) == With(Bag1(k1, v1), k2, v2)
Bag3(k1, v1, k2, v2, k3, v3) == With(Bag2(k1, v1, k2, v2), k3, v3)

\* The requests of these runs: with and without a namespace, with an empty
\* one, succeeding and failing, and one for a name that is no tool.
RepeatRequests ==
    { Request("scale_deployment", Bag2("name", PyStr(<<"web">>), "replicas", PyInt(3)), o) :
        o \in {AllOk, FirstFails} }
    \cup { Request("scale_deployment",
                   Bag3("name", PyStr(<<"web">>), "namespace", PyStr(<<"ns">>), "replicas", PyInt(3)),
                   AllOk),
           Request("get_logs", Bag2("pod_name", PyStr(<<"x">>), "namespace", PyStr(<<>>)), AllOk),
           Request("get_logs", Bag2("pod_name", PyStr(<<"x">>), "namespace", PyStr(<<"ns">>)), AllOk),
           Request("get_pods", EmptyBag, AllOk),
           Request("delete_resource",
                   Bag3("kind", PyStr(<<"Pod">>), "name", PyStr(<<"x">>), "namespace", PyStr(<<"ns">>)),
                   FirstFails),
           Request("bogus", EmptyBag, AllOk) }

\* The tools/call handler, the request and its answer kept in hist.
CallToolRecorded ==
    /\ alive /\ pc = "idle" /\ Len(hist) < MaxRepeat
    /\ \E q \in RepeatRequests :
         /\ Handle(q.name, q.arguments, q.o, q.w)
         /\ hist' = Append(hist, [request |-> q, answer |-> resp'])
    /\ UNCHANGED overlap

NextRepeat == Startup \/ CallToolRecorded \/ Reply

SpecRepeat == Init /\ [][NextRepeat]_vars

(********************** runs with overlapping handlers *********************)

\* Where the invocation of call_tool for the request in slot p keeps its
\* parameters (name, arguments) and locals: in a frame of its own.
Frame_shared(p) == 1
Frame(p) == p

SecondFails == [AllOk EXCEPT ![2] = "api"]
OverlapRequests ==
    { Request("scale_deployment",
              Bag3("name", PyStr(<<"web">>), "namespace", PyStr(<<"ns">>), "replicas", PyInt(3)), o) :
        o \in {AllOk, SecondFails} }
    \cup { Request("scale_deployment",
                   Bag3("name", PyStr(<<"web">>), "namespace", PyStr(<<"ns">>), "replicas", PyInt(0)), o) :
             o \in {AllOk, FirstFails} }
    \cup { Request("scale_deployment", Bag2("name", PyStr(<<"web">>), "replicas", PyInt(3)), AllOk),
           Request("get_logs", Bag2("pod_name", PyStr(<<"x">>), "namespace", PyStr(<<>>)), AllOk),
           Request("get_cluster_info", EmptyBag, SecondFails),
           Request("bogus", EmptyBag, AllOk) }

\* What the invocation whose frame is f does from entry to return.
Run(f) == call_tool(impl, f.name, f.arguments, f.default_namespace, f.o, f.w)

\* A request arrives while the server is serving; the host starts an
\* invocation of call_tool for it, whether or not another one is running.
Accept(p) ==
    /\ alive /\ pc = "idle" /\ task[p].stage = "none"
    /\ \E q \in OverlapRequests :
         /\ task' = [task EXCEPT ![p] = [stage |-> "accepted", request |-> q, answer |-> NoResponse]]
         /\ frame' = [frame EXCEPT ![Frame(p)] =
                         [name |-> q.name, arguments |-> q.arguments, o |-> q.o, w |-> q.w,
                          default_namespace |-> <<>>, k |-> 0]]
    /\ UNCHANGED <<impl, env, DEFAULT_NAMESPACE, KUBECONFIG_PATH, DEBUG, kubeconfig, cluster,
                   tools, alive, pc, req, resp, nServed, nFailed, hist, calls>>

\* The invocation runs up to its first API call: it reads the module's
\* DEFAULT_NAMESPACE and evaluates the arguments of the K3sClient method.
Enter(p) ==
    /\ task[p].stage = "accepted"
    /\ task' = [task EXCEPT ![p].stage = "running"]
    /\ frame' = [frame EXCEPT ![Frame(p)].default_namespace = DEFAULT_NAMESPACE]
    /\ UNCHANGED <<impl, env, DEFAULT_NAMESPACE, KUBECONFIG_PATH, DEBUG, kubeconfig, cluster,
                   tools, alive, pc, req, resp, nServed, nFailed, hist, calls>>

\* The invocation makes its next API call on the shared client.
ApiCall(p) ==
    /\ task[p].stage = "running"
    /\ LET f == frame[Frame(p)] IN
       /\ f.k < Len(Run(f).api)
       /\ calls' = Append(calls, [slot |-> p, call |-> Run(f).api[f.k + 1],
                                   ok |-> f.o[f.k + 1] = "ok"])
       /\ frame' = [frame EXCEPT ![Frame(p)].k = f.k + 1]
    /\ UNCHANGED <<impl, env, DEFAULT_NAMESPACE, KUBECONFIG_PATH, DEBUG, kubeconfig, cluster,
                   tools, alive, pc, req, resp, nServed, nFailed, hist, task>>

\* The invocation returns its content.
Return(p) ==
    /\ task[p].stage = "running"
    /\ LET f == frame[Frame(p)] IN
       /\ f.k >= Len(Run(f).api)
       /\ task' = [task EXCEPT ![p].stage = "returned", ![p].answer = Run(f)]
       /\ nFailed' = IF Run(f).outcome = "Failure" THEN nFailed + 1 ELSE nFailed
       /\ alive' = ~Run(f).exited
       /\ DEFAULT_NAMESPACE' = DEFAULT_NAMESPACE_after(impl, f.arguments, DEFAULT_NAMESPACE)
       /\ tools' = TOOLS_after(impl, f.arguments, tools)
    /\ nServed' = nServed + 1
    /\ UNCHANGED <<impl, env, KUBECONFIG_PATH, DEBUG, kubeconfig, cluster,
                   pc, req, resp, hist, frame, calls>>

AcceptAny == \E p \in Slots : Accept(p)
EnterAny == \E p \in Slots : Enter(p)
ApiCallAny == \E p \in Slots : ApiCall(p)
ReturnAny == \E p \in Slots : Return(p)

NextOverlap == Startup \/ AcceptAny \/ EnterAny \/ ApiCallAny \/ ReturnAny

SpecOverlap == Init /\ [][NextOverlap]_vars

(************************ runs on the one event loop ***********************)

\* Whether the handler of a request for name gives the event loop back
\* between its dispatch and its result. call_tool awaits only K3sClient
\* coroutines, and these (get_cluster_info's self.get_nodes() and
\* self.get_namespaces() included) make their API calls with the blocking
\* client and await nothing that suspends.
Yields_at_call(i, name) == TRUE
Yields(i, name) == FALSE

\* The invocation in slot p is running and keeps the loop until it returns.
HoldsLoop(p) == task[p].stage = "running" /\ ~Yields(impl, frame[Frame(p)].name)
\* No invocation other than p's keeps the loop.
LoopFree(p) == \A q \in Slots \ {p} : ~HoldsLoop(q)

\* The loop runs the steps of an invocation only when no other holds it.
EnterOnLoop(p) == LoopFree(p) /\ Enter(p)
ApiCallOnLoop(p) == LoopFree(p) /\ ApiCall(p)
ReturnOnLoop(p) == LoopFree(p) /\ Return(p)

EnterOnLoopAny == \E p \in Slots : EnterOnLoop(p)
ApiCallOnLoopAny == \E p \in Slots : ApiCallOnLoop(p)
ReturnOnLoopAny == \E p \in Slots : ReturnOnLoop(p)

NextLoop == Startup \/ AcceptAny \/ EnterOnLoopAny \/ ApiCallOnLoopAny \/ ReturnOnLoopAny

SpecLoop == Init /\ [][NextLoop]_vars

\* The replica count of the deployment after the API calls made so far: the
\* count of the last patch that succeeded, or the count it had before.
RECURSIVE ReplicasAfter(_, _)
ReplicasAfter(made, before) ==
    IF made = <<>> THEN before
    ELSE LET c == made[Len(made)] IN
         IF c.ok /\ c.call.op \in {"patch_namespaced_deployment", "patch_namespaced_deployment_scale"}
         THEN c.call.args[3]
         ELSE ReplicasAfter(SubSeq(made, 1, Len(made) - 1), before)

(********************************* claims **********************************)

Answered == pc = "responded" /\ req.method = "tools/call"
\* The one text of the response.
Text == resp.content[1]
Required(i, name) == Descriptor(i, name).required
\* The required arguments of the tool's schema the bag lacks, in schema order.
Lacking(i, name, bag) == SelectSeq(Required(i, name), LAMBDA k : k \notin DOMAIN bag)

\* C1: a request for a name that is no registered tool, whatever its argument
\* bag, is answered with a Failure whose text reports the unknown tool by
\* name, and no K3sClient method and no API call is made for it.
C1_UnknownOperation ==
    (Answered /\ req.name \notin ToolNames(impl)) =>
        /\ resp.outcome = "Failure"
        /\ Len(resp.content) = 1
        /\ Contains(Text, <<"Unknown tool: ", req.name>>)
        /\ resp.cap = <<>>
        /\ resp.api = <<>>

C1_Witness ==
    /\ Answered /\ req.name = "bogus" /\ resp.outcome = "Failure"
    /\ DOMAIN req.arguments = {"namespace", "name"}

\* C2: a request for a registered tool whose bag lacks a required argument
\* of the tool's schema is answered with a Failure raised by the missing
\* subscript, whose text names the first lacking required field, and no
\* K3sClient method and no API call is made for it.
C2_MissingArgument ==
    (Answered /\ req.name \in ToolNames(impl)
       /\ Lacking(impl, req.name, req.arguments) # <<>>) =>
        /\ resp.outcome = "Failure"
        /\ resp.exc.cls = "KeyError"
        /\ Len(resp.content) = 1
        /\ Contains(Text, <<"'", Lacking(impl, req.name, req.arguments)[1], "'">>)
        /\ resp.cap = <<>>
        /\ resp.api = <<>>

C2_Witness ==
    /\ Answered /\ req.name = "scale_deployment" /\ resp.outcome = "Failure"
    /\ DOMAIN req.arguments = {"name"}

\* The tools whose K3sClient method takes a namespace it cannot do without.
NamespacedTools ==
    {"get_logs", "execute_command", "restart_pod", "get_deployment",
     "scale_deployment", "delete_resource"}
\* The required arguments other than the namespace that the bag lacks.
LackingOther(i, name, bag) ==
    SelectSeq(Lacking(i, name, bag), LAMBDA k : k # "namespace")

\* C3: when the bag of a request for a tool that needs a namespace has no
\* "namespace" (and has the tool's other required arguments), the K3sClient
\* method is invoked with the configured default namespace; scale_deployment
\* with {name: "web", replicas: 3} under the default namespace "default"
\* invokes scale_deployment("web", "default", 3).
C3_DefaultNamespace ==
    (Answered /\ req.name \in NamespacedTools
       /\ "namespace" \notin DOMAIN req.arguments
       /\ LackingOther(impl, req.name, req.arguments) = <<>>) =>
        /\ Len(resp.cap) = 1
        /\ PyStr(DEFAULT_NAMESPACE) \in Range(resp.cap[1].args)
        /\ (/\ req.name = "scale_deployment"
            /\ req.arguments["name"] = PyStr(<<"web">>)
            /\ req.arguments["replicas"] = PyInt(3)
            /\ DEFAULT_NAMESPACE = <<"default">>)
           => resp.cap = <<Call("scale_deployment",
                                <<PyStr(<<"web">>), PyStr(<<"default">>), PyInt(3)>>)>>

\* A manifest of one document, a mapping with metadata, of kind ConfigMap.
IsConfigMapManifest(m) ==
    /\ m.valid /\ Len(m.docs) = 1 /\ IsMapping(m.docs[1])
    /\ m.docs[1].kind = PyStr(<<"ConfigMap">>) /\ m.docs[1].hasMeta

\* C4: apply_manifest on a manifest of the unsupported kind ConfigMap is
\* answered with a Failure that reports the unsupported kind, and the request
\* makes no API call.
C4_UnsupportedKind ==
    (Answered /\ req.name = "apply_manifest"
       /\ "manifest_yaml" \in DOMAIN req.arguments
       /\ IsConfigMapManifest(req.arguments["manifest_yaml"])) =>
        /\ resp.outcome = "Failure"
        /\ Contains(Text, <<"Unsupported resource kind: ", "ConfigMap">>)
        /\ resp.api = <<>>

\* A K3sClient method was invoked and raised.
CapabilityFailed == Answered /\ resp.cap # <<>> /\ resp.exc # NoExc

\* C5 as claimed: when the K3sClient method of a request raises, the request
\* is answered with a Failure whose text contains the exception's message.
C5_Original ==
    CapabilityFailed =>
        /\ resp.outcome = "Failure" /\ ~resp.exited
        /\ Len(resp.content) = 1
        /\ Contains(Text, resp.exc.msg)

\* C5 amended: when the K3sClient method of a request raises, the request is
\* answered (the handler returns) with a Failure whose text contains the
\* exception's message, verbatim in the src module and as the JSON string
\* json.dumps makes of it (quote, backslash and newline escaped) in the top
\* module.
C5_FailureCarriesMessage ==
    CapabilityFailed =>
        /\ resp.outcome = "Failure" /\ ~resp.exited
        /\ Len(resp.content) = 1
        /\ impl = "src" => Contains(Text, resp.exc.msg)
        /\ impl = "top" => Contains(Text, JsonString(resp.exc.msg))

C5_Witness ==
    /\ CapabilityFailed /\ impl = "top" /\ req.name = "apply_manifest"
    /\ Contains(resp.exc.msg, <<"\n">>)
    /\ ~Contains(Text, resp.exc.msg)

\* C6: once a request has ended in a Failure the process is still running,
\* the next request is accepted, and a request answered after a Failure gets
\* an answer call_tool gives on the configuration of the start.
C6_ServesAfterFailure ==
    nFailed > 0 =>
        /\ alive
        /\ (pc = "idle" /\ nServed < MaxRequests) => ENABLED CallTool
        /\ (Answered /\ nFailed > (IF resp.outcome = "Failure" THEN 1 ELSE 0)) =>
              \E o \in Oracles(req.name) : \E w \in Worlds(req.name) :
                  resp = call_tool(impl, req.name, req.arguments, env, o, w)

C6_Witness ==
    /\ Answered /\ nFailed = 1 /\ nServed = 2 /\ resp.outcome = "Success"
    /\ req.name = "delete_resource"

\* C7: delete_resource with kind "Pod", name "x", namespace "ns" invokes
\* delete_resource("Pod", "x", "ns") and makes exactly one API call, the pod
\* deletion of x in ns; when that call returns, the answer is a Success whose
\* payload reports kind "Pod", name "x", namespace "ns" and status "deleted".
C7_DeletePod ==
    (Answered /\ req.name = "delete_resource"
       /\ DOMAIN req.arguments = {"kind", "name", "namespace"}
       /\ req.arguments["kind"] = PyStr(<<"Pod">>)
       /\ req.arguments["name"] = PyStr(<<"x">>)
       /\ req.arguments["namespace"] = PyStr(<<"ns">>)) =>
        /\ resp.cap = <<Call("delete_resource",
                            <<PyStr(<<"Pod">>), PyStr(<<"x">>), PyStr(<<"ns">>)>>)>>
        /\ resp.api = <<Call("delete_namespaced_pod", <<PyStr(<<"x">>), PyStr(<<"ns">>)>>)>>
        /\ resp.exc = NoExc =>
              /\ resp.outcome = "Success"
              /\ Text = json_dumps(resp.val)
              /\ Range(resp.val.pairs) =
                    { <<"kind", PyStr(<<"Pod">>)>>, <<"name", PyStr(<<"x">>)>>,
                      <<"namespace", PyStr(<<"ns">>)>>, <<"status", PyStr(<<"deleted">>)>> }

\* C8: every request is answered with exactly one text, returned from
\* exactly one of the two branches of the handler: the Success branch when
\* nothing was raised, the Failure branch when something was.
C8_OneResult ==
    Answered =>
        /\ ~resp.exited
        /\ Len(resp.content) = 1
        /\ resp.outcome \in {"Success", "Failure"}
        /\ resp.outcome = "Success" <=> resp.exc = NoExc

C8_Witness ==
    Answered /\ resp.outcome = "Failure" /\ resp.cap # <<>> /\ Len(resp.content) = 1

\* The texts the router answers with for the Failures of requests with an
\* empty bag or with only a pod name.
FailureTexts(i, dns) ==
    {r.content[1] :
        r \in {x \in {call_tool(i, n, b, dns, [j \in 1..OracleLen |-> "ok"],
                                [items |-> <<>>, text |-> <<>>, replicas |-> 2]) :
                         n \in ToolNames(i) \cup UnknownNames,
                         b \in {EmptyBag, With(EmptyBag, "pod_name", PyStr(<<"x">>))}} :
               x.outcome = "Failure"}}

\* C9: the text of a Success is never a text the router answers a Failure
\* with.
C9_Discriminated ==
    (Answered /\ resp.outcome = "Success") =>
        Text \notin FailureTexts(impl, DEFAULT_NAMESPACE)

\* C10: a Success carries the value the K3sClient method returned as one
\* text: the text itself for get_logs and execute_command, whose methods
\* return text, and json.dumps of the value for every other tool.
C10_SuccessPayload ==
    (Answered /\ resp.outcome = "Success") =>
        /\ resp.val.t = "str" <=> req.name \in {"get_logs", "execute_command"}
        /\ resp.content =
              IF req.name \in {"get_logs", "execute_command"}
              THEN <<resp.val.s>> ELSE <<json_dumps(resp.val)>>

C10_Witness ==
    /\ Answered /\ resp.outcome = "Success" /\ req.name = "get_logs"
    /\ resp.val = PyStr(<<"started", "\n", "ready">>)

\* The kinds delete_resource is specified to support.
SupportedKinds == {PyStr(<<"Pod">>), PyStr(<<"Deployment">>), PyStr(<<"Service">>)}
\* A delete_resource request with all the arguments the module requires.
DeleteRequest ==
    /\ Answered /\ req.name = "delete_resource"
    /\ {"kind", "name"} \subseteq DOMAIN req.arguments
    /\ Lacking(impl, req.name, req.arguments) = <<>>
\* The API calls of the request that delete something.
Deletions ==
    SelectSeq(resp.api, LAMBDA c : c.op \in {"delete_namespaced_pod",
                  "delete_namespaced_deployment", "delete_namespaced_service"})

C12_ExactKinds ==
    DeleteRequest =>
        /\ Deletions # <<>> <=> req.arguments["kind"] \in SupportedKinds
        /\ req.arguments["kind"] \notin SupportedKinds => resp.outcome = "Failure"

\* The answer to the request of the state when the API calls end as o says
\* and the cluster holds w.
AnswerOn(o, w) == call_tool(impl, req.name, req.arguments, DEFAULT_NAMESPACE, o, w)

\* C13: whatever the API calls of a request do, a call that fails is the
\* last one the request makes, at most one K3sClient method is invoked, and
\* the request is answered with one Failure text.
C13_NoRetry ==
    Answered =>
        \A o \in Oracles(req.name) : \A w \in Worlds(req.name) :
            LET r == AnswerOn(o, w) IN
            /\ Len(r.cap) <= 1
            /\ \A j \in 1..Len(r.api) :
                  o[j] # "ok" =>
                      /\ j = Len(r.api)
                      /\ Len(r.cap) = 1
                      /\ r.outcome = "Failure"
                      /\ Len(r.content) = 1

\* The read of scale_deployment failed: the patch is not attempted.
C13_Witness ==
    /\ Answered /\ impl = "top" /\ req.name = "scale_deployment"
    /\ resp.outcome = "Failure"
    /\ Len(resp.api) = 1 /\ resp.api[1].op = "read_namespaced_deployment"

\* The run started with a startup error: the kubeconfig file is absent or
\* cannot be loaded, or the cluster cannot be reached.
StartupError == kubeconfig # "ok" \/ cluster = "unreachable"

\* C14: in a run that started with a startup error, the process terminates
\* at startup and no request is ever answered.
C14_StartupFatal ==
    StartupError =>
        /\ pc \in {"starting", "exited"}
        /\ pc = "exited" => ~alive
        /\ nServed = 0

Listed == pc = "responded" /\ req.method = "tools/list"

\* C15: after any sequence of requests, answered with a Success or with a
\* Failure, the module's TOOLS list is the catalogue of the start, and
\* list_tools answers with it: the same descriptors in the same order.
C15_RegistryImmutable ==
    /\ tools = TOOLS(impl)
    /\ Listed => resp.tools = TOOLS(impl)

\* The catalogue is listed after a request that ended in a Failure.
C15_Witness == Listed /\ nServed = 2 /\ nFailed = 1 /\ Len(resp.tools) = 13

\* C16: no two descriptors of the TOOLS list, and none of a list_tools
\* answer, have the same name.
C16_UniqueNames ==
    /\ \A a, b \in DOMAIN tools : tools[a].name = tools[b].name => a = b
    /\ Listed => \A a, b \in DOMAIN resp.tools :
                     resp.tools[a].name = resp.tools[b].name => a = b

C16_Witness == Listed /\ impl = "src" /\ Len(resp.tools) > 1

\* A request of the src module for a tool that needs a namespace, without
\* one, whose K3sClient method was invoked.
Substituted ==
    /\ Answered /\ impl = "src" /\ req.name \in NamespacedTools
    /\ "namespace" \notin DOMAIN req.arguments /\ resp.cap # <<>>

\* C17: no step of the server changes DEFAULT_NAMESPACE, KUBECONFIG_PATH or
\* DEBUG; the default namespace is the one read from the environment at the
\* start, and it is the value a later call substitutes.
C17_ConfigFixed ==
    /\ [](DEFAULT_NAMESPACE = env)
    /\ [](Substituted => PyStr(env) \in Range(resp.cap[1].args))
    /\ [][UNCHANGED <<DEFAULT_NAMESPACE, KUBECONFIG_PATH, DEBUG>>]_vars

\* A second call substitutes the default after a first call that named a
\* namespace of its own.
C17_Witness ==
    /\ Substituted /\ nServed = 2 /\ env = <<"team-a">> /\ DEBUG
    /\ req.name = "scale_deployment"
    /\ PyStr(<<"team-a">>) \in Range(resp.cap[1].args)

ListTools3 == {"get_pods", "get_deployments", "get_services"}
AllNamespacesOp(name) ==
    CASE name = "get_pods" -> "list_pod_for_all_namespaces"
      [] name = "get_deployments" -> "list_deployment_for_all_namespaces"
      [] name = "get_services" -> "list_service_for_all_namespaces"
NamespacedOp(name) ==
    CASE name = "get_pods" -> "list_namespaced_pod"
      [] name = "get_deployments" -> "list_namespaced_deployment"
      [] name = "get_services" -> "list_namespaced_service"

\* C20: a request for get_pods, get_deployments or get_services without a
\* "namespace" makes one API call, the list over all namespaces; with a
\* non-empty namespace it makes one API call, the namespaced list, for that
\* namespace.
C20_ListScope ==
    (Answered /\ req.name \in ListTools3) =>
        /\ Len(resp.cap) = 1 /\ Len(resp.api) = 1
        /\ "namespace" \notin DOMAIN req.arguments =>
              resp.api[1].op = AllNamespacesOp(req.name)
        /\ ("namespace" \in DOMAIN req.arguments
              /\ req.arguments["namespace"].t = "str"
              /\ req.arguments["namespace"].s # <<>>) =>
              /\ resp.api[1].op = NamespacedOp(req.name)
              /\ resp.api[1].args[1] = req.arguments["namespace"]

C20_Witness ==
    /\ Answered /\ req.name = "get_services" /\ resp.outcome = "Success"
    /\ "namespace" \in DOMAIN req.arguments
    /\ resp.api = <<Call("list_namespaced_service", <<PyStr(<<"ns">>)>>)>>

\* C18: two requests of one run with the same tool name and argument bag,
\* whose API calls end the same way on the same cluster contents, invoke the
\* same K3sClient method with the same arguments, make the same API calls
\* and get the same answer, whatever was handled before or between them.
C18_Idempotent ==
    \A a, b \in DOMAIN hist :
        hist[a].request = hist[b].request =>
            /\ hist[a].answer.cap = hist[b].answer.cap
            /\ hist[a].answer.api = hist[b].answer.api
            /\ hist[a].answer.outcome = hist[b].answer.outcome
            /\ hist[a].answer.content = hist[b].answer.content

\* The same request answered first and third, a request that names a
\* namespace of its own answered in between.
C18_Witness ==
    /\ Len(hist) = 3 /\ impl = "src"
    /\ hist[1].request = hist[3].request
    /\ hist[1].request.name = "scale_deployment"
    /\ "namespace" \notin DOMAIN hist[1].request.arguments
    /\ hist[1].answer.outcome = "Success"
    /\ hist[2].request.name = "get_logs"
    /\ hist[2].request.arguments["namespace"] = PyStr(<<"ns">>)

\* The API calls slot p has made on the shared client so far, in order.
CallsOf(p) ==
    LET own == SelectSeq(calls, LAMBDA c : c.slot = p) IN
    [j \in 1..Len(own) |-> own[j].call]
\* What the request in slot p gets when it is the only request, with the
\* same outcomes of its API calls on the same cluster contents.
Alone(p) ==
    LET q == task[p].request IN call_tool(impl, q.name, q.arguments, env, q.o, q.w)

\* C19: with two requests in flight and their handlers interleaved in any
\* way at their API calls, no handler waits for the other, the API calls a
\* handler has made are the first calls it makes when run alone, and what
\* it returns (K3sClient method invoked, API calls, outcome and text) is
\* what it returns when run alone.
C19_Independent ==
    \A p \in Slots :
        /\ task[p].stage = "running" => ENABLED (ApiCall(p) \/ Return(p))
        /\ task[p].stage # "none" =>
              /\ Len(CallsOf(p)) <= Len(Alone(p).api)
              /\ CallsOf(p) = SubSeq(Alone(p).api, 1, Len(CallsOf(p)))
        /\ task[p].stage = "returned" =>
              /\ CallsOf(p) = Alone(p).api
              /\ task[p].answer.cap = Alone(p).cap
              /\ task[p].answer.api = Alone(p).api
              /\ task[p].answer.outcome = Alone(p).outcome
              /\ task[p].answer.content = Alone(p).content

\* Both requests have returned, and the second made an API call between the
\* two API calls of the first.
C19_Witness ==
    /\ \A p \in Slots : task[p].stage = "returned"
    /\ Len(calls) >= 3
    /\ calls[1].slot = 1 /\ calls[2].slot = 2 /\ calls[3].slot = 1
    /\ task[1].request.name = "scale_deployment" /\ task[2].request.name = "get_logs"

\* C21: a get_logs request whose K3sClient method is invoked makes one API
\* call, the read of the pod's log, with tail_lines 100 when the bag has no
\* "tail_lines" and with the bag's value when it has one.
C21_TailLines ==
    (Answered /\ req.name = "get_logs" /\ resp.cap # <<>>) =>
        LET n == IF "tail_lines" \in DOMAIN req.arguments
                 THEN req.arguments["tail_lines"] ELSE PyInt(100)
        IN  /\ resp.cap[1].args[4] = n
            /\ Len(resp.api) = 1
            /\ resp.api[1].op = "read_namespaced_pod_log"
            /\ resp.api[1].args[4] = n

C21_Witness ==
    /\ Answered /\ req.name = "get_logs" /\ resp.outcome = "Success"
    /\ "tail_lines" \notin DOMAIN req.arguments
    /\ resp.api[1].args[4] = PyInt(100)

\* An apply_manifest request with a manifest.
ApplyRequest ==
    Answered /\ req.name = "apply_manifest" /\ "manifest_yaml" \in DOMAIN req.arguments
\* The documents of the request's manifest that are objects of a kind
\* apply_manifest creates, in document order.
Creatable ==
    SelectSeq(req.arguments["manifest_yaml"].docs,
              LAMBDA d : IsMapping(d) /\ CreateOp(d.kind) # "")
\* The namespace the precedence rule gives the object of document d.
TargetNamespace(d) ==
    IF "namespace" \in DOMAIN req.arguments /\ Truthy(req.arguments["namespace"])
    THEN req.arguments["namespace"]
    ELSE IF d.hasMeta /\ d.hasNs THEN d.ns
    ELSE PyStr(DEFAULT_NAMESPACE)

\* C22: every create call of an apply_manifest request is made in the
\* namespace of the call's "namespace" argument when that is given and not
\* empty, else in the namespace of the document's metadata when it has one,
\* else in the default namespace.
C22_NamespacePrecedence ==
    ApplyRequest =>
        /\ Len(resp.api) <= Len(Creatable)
        /\ \A j \in 1..Len(resp.api) :
              resp.api[j].args[1] = TargetNamespace(Creatable[j])

\* The bag without the key.
Without(bag, key) == [k \in DOMAIN bag \ {key} |-> bag[k]]
\* A request for a tool whose schema has a "namespace" property, with a
\* "namespace" that is the empty string or null.
EmptyNamespace ==
    /\ Answered /\ req.name \in ToolNames(impl)
    /\ "namespace" \in Range(Descriptor(impl, req.name).properties)
    /\ "namespace" \in DOMAIN req.arguments
    /\ req.arguments["namespace"] \in {PyStr(<<>>), PyNone}

\* C23: a request with an empty or null "namespace" makes the API calls and
\* gets the outcome and text of the same request without the "namespace",
\* for every tool whose schema has one and whatever the API calls do.
C23_EmptyIsOmitted ==
    EmptyNamespace =>
        \A o \in Oracles(req.name) : \A w \in Worlds(req.name) :
            LET given == AnswerOn(o, w)
                omitted == call_tool(impl, req.name, Without(req.arguments, "namespace"),
                                     DEFAULT_NAMESPACE, o, w)
            IN  /\ given.api = omitted.api
                /\ given.outcome = omitted.outcome
                /\ given.content = omitted.content

\* The K3sClient method call_tool awaits for a tool.
MethodOf(i, name) ==
    IF i = "top" /\ name = "get_logs" THEN "get_pod_logs"
    ELSE IF i = "top" /\ name = "restart_pod" THEN "delete_pod"
    ELSE name
\* The request fell through to the final else of the dispatch.
FellThrough ==
    resp.exc = [cls |-> "ValueError", msg |-> <<"Unknown tool: ", req.name>>]

\* C24: a request for a name of the TOOLS list never falls through the
\* dispatch: with its required arguments it invokes the K3sClient method of
\* that tool and no other; a request for any other name, the names of
\* K3sClient methods that are no tools included, falls through and invokes
\* nothing.
C24_NamesAgree ==
    Answered =>
        /\ req.name \in {tools[k].name : k \in DOMAIN tools} =>
              /\ ~FellThrough
              /\ Lacking(impl, req.name, req.arguments) = <<>> => Len(resp.cap) = 1
              /\ resp.cap # <<>> => resp.cap[1].op = MethodOf(impl, req.name)
        /\ req.name \notin {tools[k].name : k \in DOMAIN tools} =>
              FellThrough /\ resp.cap = <<>>

C24_Witness ==
    /\ Answered /\ impl = "top" /\ req.name = "restart_pod"
    /\ resp.cap # <<>> /\ resp.cap[1].op = "delete_pod"

\* The request failed on a subscript of the argument bag, before any
\* K3sClient method was invoked.
MissingArgumentFailure ==
    resp.outcome = "Failure" /\ resp.exc.cls = "KeyError" /\ resp.cap = <<>>

\* C25: a request for a tool fails on a missing argument if and only if its
\* bag lacks an argument the tool's schema lists as required, and the
\* argument the Failure names is one of the required ones the bag lacks;
\* lacking any other argument of the schema never makes it fail that way.
C25_RequiredAgree ==
    (Answered /\ req.name \in ToolNames(impl)) =>
        /\ MissingArgumentFailure <=> Lacking(impl, req.name, req.arguments) # <<>>
        /\ MissingArgumentFailure =>
              \E k \in Range(Lacking(impl, req.name, req.arguments)) :
                  resp.exc.msg = <<"'", k, "'">>

\* All required arguments are there and an optional one is not: the
\* K3sClient method is invoked.
C25_Witness ==
    /\ Answered /\ req.name = "get_logs" /\ resp.cap # <<>>
    /\ Lacking(impl, req.name, req.arguments) = <<>>
    /\ "container" \notin DOMAIN req.arguments
    /\ "tail_lines" \notin DOMAIN req.arguments

ReadOnlyTools ==
    {"get_pods", "get_logs", "get_deployments", "get_deployment", "get_services",
     "get_nodes", "get_namespaces", "get_cluster_info"}
\* The API operations that read the cluster and leave it as it is.
ReadingOps ==
    {"list_namespaced_pod", "list_pod_for_all_namespaces", "read_namespaced_pod_log",
     "list_namespaced_deployment", "list_deployment_for_all_namespaces",
     "read_namespaced_deployment", "list_namespaced_service",
     "list_service_for_all_namespaces", "list_node", "list_namespace", "get_code"}

\* C26: every API call of a request for a read-only tool is a list, a read
\* or the version query, none a create, a patch, a delete or an exec, so a
\* sequence of such requests leaves the cluster as it was.
C26_ReadOnly ==
    (Answered /\ req.name \in ReadOnlyTools) =>
        \A j \in 1..Len(resp.api) : resp.api[j].op \in ReadingOps

\* A second read-only request in a row has made all its API calls.
C26_Witness ==
    /\ Answered /\ nServed = 2 /\ req.name = "get_cluster_info"
    /\ resp.outcome = "Success" /\ Len(resp.api) >= 2

PatchOps == {"patch_namespaced_deployment", "patch_namespaced_deployment_scale"}
Patches(api) == SelectSeq(api, LAMBDA c : c.op \in PatchOps)
\* A scale_deployment request whose K3sClient method was invoked.
ScaleRequest == Answered /\ req.name = "scale_deployment" /\ resp.cap # <<>>

\* C27: a scale_deployment request makes no API call but a read of the
\* deployment and a patch of it, at most one patch, for the requested name,
\* in the namespace the method was given, with the requested replicas; the
\* top module reads first and patches only when the read returned, a failed
\* read giving a Failure and no patch; a Success has made the patch and its
\* payload reports the name, the namespace and the replicas.
C27_ScaleOnePatch ==
    ScaleRequest =>
        LET n == resp.cap[1].args[1]
            ns == resp.cap[1].args[2]
            r == resp.cap[1].args[3]
        IN  /\ n = req.arguments["name"] /\ r = req.arguments["replicas"]
            /\ "namespace" \in DOMAIN req.arguments /\ Truthy(req.arguments["namespace"])
                  => ns = req.arguments["namespace"]
            /\ \A o \in Oracles(req.name) : \A w \in Worlds(req.name) :
                  LET a == AnswerOn(o, w) IN
                  /\ \A j \in 1..Len(a.api) :
                        a.api[j].op \in PatchOps \cup {"read_namespaced_deployment"}
                  /\ Len(Patches(a.api)) <= 1
                  /\ \A j \in 1..Len(Patches(a.api)) : Patches(a.api)[j].args = <<n, ns, r>>
                  /\ impl = "top" =>
                        /\ a.api[1] = Call("read_namespaced_deployment", <<n, ns>>)
                        /\ o[1] # "ok" => a.outcome = "Failure" /\ Patches(a.api) = <<>>
                        /\ Patches(a.api) # <<>> => o[1] = "ok" /\ a.api[2].op \in PatchOps
                  /\ a.outcome = "Success" =>
                        /\ Len(Patches(a.api)) = 1
                        /\ \E k \in {"deployment", "name"} : <<k, n>> \in Range(a.val.pairs)
                        /\ <<"namespace", ns>> \in Range(a.val.pairs)
                        /\ <<"replicas", r>> \in Range(a.val.pairs)

C27_Witness ==
    /\ ScaleRequest /\ impl = "top" /\ resp.outcome = "Success"
    /\ Len(resp.api) = 2 /\ resp.api[2].op = "patch_namespaced_deployment"
    /\ req.arguments["replicas"] = PyInt(0)

\* An apply_manifest request whose manifest has several documents.
SeveralDocuments == ApplyRequest /\ Len(req.arguments["manifest_yaml"].docs) >= 2

\* C28: for a manifest of several documents, whatever the API answers, the
\* API calls of apply_manifest are create calls for the creatable documents
\* in document order, one per document from the first on, none for an empty
\* document and nothing that deletes; a create call that fails is the last
\* call of the request, the calls before it stay made, and the request is a
\* Failure. The top module goes on to the first failing create or to the
\* last document.
C28_DocumentOrder ==
    SeveralDocuments =>
        \A o \in Oracles(req.name) : \A w \in Worlds(req.name) :
            LET a == AnswerOn(o, w)
                failing == {k \in 1..Len(Creatable) : o[k] # "ok"}
            IN  /\ Len(a.api) <= Len(Creatable)
                /\ \A j \in 1..Len(a.api) :
                      /\ a.api[j].op = CreateOp(Creatable[j].kind)
                      /\ a.api[j].args[2] = Creatable[j].name
                /\ \A k \in 1..Len(a.api) :
                      o[k] # "ok" => Len(a.api) = k /\ a.outcome = "Failure"
                /\ impl = "top" =>
                      IF failing = {}
                      THEN Len(a.api) = Len(Creatable) /\ a.outcome = "Success"
                      ELSE \A k \in failing :
                              (\A j \in failing : k <= j) => Len(a.api) = k

C28_Witness ==
    /\ SeveralDocuments /\ impl = "top" /\ resp.outcome = "Failure"
    /\ Len(resp.api) = 2 /\ resp.api[1].op # resp.api[2].op

\* Both slots hold scale_deployment requests for the same deployment.
TwoScales ==
    /\ \A p \in Slots : task[p].stage # "none" /\ task[p].request.name = "scale_deployment"
    /\ task[1].request.arguments["name"] = task[2].request.arguments["name"]

\* C29: on the event loop at most one handler is between its dispatch and
\* its result, so the API calls of one request are never separated by a call
\* of another; and when two scale_deployment requests for the same
\* deployment have both returned, their reads and patches lie one request
\* after the other and the deployment's replica count, if a patch succeeded,
\* is the replicas of one of the two requests, the one that patched last.
C29_NoInterleaving ==
    /\ Cardinality({p \in Slots : task[p].stage = "running"}) <= 1
    /\ \A i \in 1..Len(calls) : \A k \in i..Len(calls) :
          calls[i].slot = calls[k].slot =>
              \A j \in i..k : calls[j].slot = calls[i].slot
    /\ (TwoScales /\ \A p \in Slots : task[p].stage = "returned") =>
          LET patched == {j \in 1..Len(calls) : calls[j].ok /\ calls[j].call.op \in PatchOps}
              final == ReplicasAfter(calls, PyInt(2))
          IN  IF patched = {} THEN final = PyInt(2)
              ELSE /\ \E p \in Slots : final = task[p].request.arguments["replicas"]
                   /\ \A j \in patched : (\A m \in patched : m <= j) =>
                          final = task[calls[j].slot].request.arguments["replicas"]

C29_Witness ==
    /\ TwoScales /\ \A p \in Slots : task[p].stage = "returned"
    /\ task[1].request.arguments["replicas"] # task[2].request.arguments["replicas"]
    /\ \A p \in Slots : task[p].answer.outcome = "Success"
    /\ impl = "top" /\ Len(calls) = 4
    /\ ReplicasAfter(calls, PyInt(2)) = task[1].request.arguments["replicas"]

====
